---------------------------- MODULE Spec2Model ----------------------------
(***************************************************************************)
(* Model of the platilka repository: the product-recommendation pipeline   *)
(* (services/product_service.py, services/broswer_service.py) and the      *)
(* hotel booking API (api.py, models.py, sutochno_service.py).             *)
(*                                                                         *)
(* Text is modelled as a sequence of tokens.  A token stands for a run of  *)
(* characters that the code's regular expressions and json.loads treat as  *)
(* a unit:                                                                 *)
(*   "F"  the opening fence  ```json      "E"  a bare fence  ```           *)
(*   "{"  "}"  the brace characters       "_"  whitespace                  *)
(*   "x"  any other text (never valid JSON)                                *)
(*   "s1" "s2"  the member  "relevance_score": 1 (2)                       *)
(*   "sb" the member  "relevance_score": "abc"   (float() raises on it)    *)
(*   "r"  the member  "recommendation_reason": "..."                       *)
(*   "n"  the member  "name": "...", "price": ...  (a product page)        *)
(*   "v1" "v2"  one entry of "recommendations" with a valid product and    *)
(*        relevance_score 1 (2)                                            *)
(*   "bad" one entry of "recommendations" whose product fails validation   *)
(*   "q"  one entry of "additional_questions"                              *)
(***************************************************************************)
EXTENDS Integers, Sequences, FiniteSets, TLC

VARIABLES
    \* the text functions on their own (SpecText)
    text,                \* content of the LLM / agent answer under test
    text_op,             \* which function was applied to text
    text_result,         \* what that function returned
    llm_calls,           \* number of self.llm.ainvoke calls made so far
    \* ProductService.get_product_recommendations (SpecPipeline, SpecReco)
    pc,                  \* position of the coroutine
    request,             \* the ProductRequest: its max_results
    search_results,      \* links returned by SearchService.search, in order
    product_urls,        \* the urls handed to extract_multiple_products
    tasks,               \* one extract_single_product task per url
    products,            \* what extract_multiple_products returned
    evaluated_products,  \* list of (product, score, reason)
    llm_answer,          \* the LLM's answer to the recommendations prompt
    response,            \* the ProductRecommendationsResponse, once returned
    trace,               \* the external calls made, in order
    \* the hotel booking API (Spec)
    search_tasks,        \* api.search_tasks: task_id -> task data
    booking_confirmations, \* api.booking_confirmations
    background,          \* position of perform_search, per task_id
    http,                \* what the last handler answered
    \* SutochnoService.book_hotel on its own (SpecBooking)
    book_call            \* the call: hotel, request, agent outcome, result

textVars == <<text, text_op, text_result>>
pipeVars == <<pc, request, search_results, product_urls, tasks, products,
              evaluated_products, llm_answer, response, trace>>
hotelVars == <<search_tasks, booking_confirmations, background, http, book_call>>
vars == <<textVars, llm_calls, pipeVars, hotelVars>>

---------------------------------------------------------------------------
(* Bounds *)

MaxTextLen == 5

---------------------------------------------------------------------------
(* Tokens *)

ScoreMembers == {"s1", "s2", "sb"}
RecMembers == {"v1", "v2", "bad"}
MemberTokens == ScoreMembers \cup RecMembers \cup {"r", "n", "q"}
TextAlphabet == {"F", "E", "{", "}", "_", "x", "s1", "sb"}

\* \s of the regular expressions, and what str.strip() removes
IsSpace(c) == c = "_"
\* the three backticks: a bare fence, or the first three characters of ```json
HasFence(c) == c \in {"E", "F"}

RECURSIVE LStrip(_)
LStrip(s) == IF s # <<>> /\ IsSpace(Head(s)) THEN LStrip(Tail(s)) ELSE s

RECURSIVE RStrip(_)
RStrip(s) ==
    IF s # <<>> /\ IsSpace(s[Len(s)]) THEN RStrip(SubSeq(s, 1, Len(s) - 1)) ELSE s

\* str.strip()
Strip(s) == RStrip(LStrip(s))

\* str.find: index of the first element satisfying Test, 0 when there is none
FirstIdx(s, Test(_)) ==
    IF \E i \in 1..Len(s) : Test(s[i])
    THEN CHOOSE i \in 1..Len(s) : Test(s[i]) /\ \A j \in 1..(i - 1) : ~Test(s[j])
    ELSE 0

\* str.rfind: index of the last element satisfying Test, 0 when there is none
LastIdx(s, Test(_)) ==
    IF \E i \in 1..Len(s) : Test(s[i])
    THEN CHOOSE i \in 1..Len(s) : Test(s[i]) /\ \A j \in (i + 1)..Len(s) : ~Test(s[j])
    ELSE 0

RECURSIVE SeqsUpTo(_, _)
SeqsUpTo(S, n) ==
    IF n = 0 THEN {<<>>}
    ELSE LET shorter == SeqsUpTo(S, n - 1)
         IN  shorter \cup {Append(s, c) : s \in shorter, c \in S}

IsOpenBrace(c) == c = "{"
IsCloseBrace(c) == c = "}"
IsFenceOpen(c) == c = "F"

\* Optional[str]
None == [some |-> FALSE, val |-> <<>>]
Some(s) == [some |-> TRUE, val |-> s]

\* re.findall(r"```json\s*([\s\S]*?)\s*```", text): the first match starts at the
\* first ```json and ends at the first ``` after it; the lazy group between the two
\* \s* is the text between them without its surrounding whitespace.
FencedMatches(t) ==
    LET i == FirstIdx(t, IsFenceOpen)
        rest == SubSeq(t, i + 1, Len(t))
        j == FirstIdx(rest, HasFence)
    IN  IF i = 0 \/ j = 0 THEN <<>> ELSE <<Strip(SubSeq(rest, 1, j - 1))>>

\* re.findall(r"(\{[\s\S]*\})", text): greedy, from the first { to the last }
BraceMatches(t) ==
    LET i == FirstIdx(t, IsOpenBrace)
        j == LastIdx(t, IsCloseBrace)
    IN  IF i = 0 \/ j < i THEN <<>> ELSE <<SubSeq(t, i, j)>>

ExtractBraceFirst(t) ==
    IF BraceMatches(t) # <<>> THEN Some(Strip(BraceMatches(t)[1]))
    ELSE IF FencedMatches(t) # <<>> THEN Some(Strip(FencedMatches(t)[1]))
    ELSE None

\* ProductService._extract_json_from_text
extract_json_from_text(t) ==
    IF FencedMatches(t) # <<>> THEN Some(Strip(FencedMatches(t)[1]))
    ELSE IF BraceMatches(t) # <<>> THEN Some(Strip(BraceMatches(t)[1]))
    ELSE None

\* BrowserService.extract_product_info, the scan of extracted_content:
\* start_idx = find('{'), end_idx = rfind('}') + 1, the slice when both were found
browser_json_str(t) ==
    LET start_idx == FirstIdx(t, IsOpenBrace)
        end_idx == LastIdx(t, IsCloseBrace)
    IN  IF start_idx # 0 /\ end_idx # 0 THEN Some(SubSeq(t, start_idx, end_idx))
        ELSE None

\* json.loads: an object is { members }, whitespace allowed around and between
\* the members; anything else raises JSONDecodeError.
JsonLoads(s) ==
    LET t == Strip(s)
        body == SubSeq(t, 2, Len(t) - 1)
        valid == /\ Len(t) >= 2
                 /\ t[1] = "{"
                 /\ t[Len(t)] = "}"
                 /\ \A k \in 1..Len(body) : body[k] \in MemberTokens \/ IsSpace(body[k])
    IN  [ok |-> valid,
         members |-> IF valid THEN SelectSeq(body, LAMBDA c : c \in MemberTokens)
                     ELSE <<>>]

\* data.get("relevance_score", 0.0): the last such member wins in a dict
ScoreMember(members) ==
    LET k == LastIdx(members, LAMBDA c : c \in ScoreMembers)
    IN  IF k = 0 THEN "absent" ELSE members[k]

HasReason(members) == \E k \in 1..Len(members) : members[k] = "r"

\* float(x) raises on "abc"
FloatOk(m) == m # "sb"
FloatOf(m) == CASE m = "s1" -> 1 [] m = "s2" -> 2 [] OTHER -> 0

Returned(score, reason) == [raised |-> FALSE, score |-> score, reason |-> reason]
Raised == [raised |-> TRUE, score |-> 0, reason |-> ""]

EvalNoCatch(content) ==
    LET response_json == extract_json_from_text(content)
        data == JsonLoads(response_json.val)
        m == ScoreMember(data.members)
    IN  IF ~response_json.some \/ response_json.val = <<>>
        THEN Returned(0, "cannot_evaluate")
        ELSE IF ~data.ok THEN Raised
        ELSE IF ~FloatOk(m) THEN Raised
        ELSE Returned(FloatOf(m), IF HasReason(data.members) THEN "llm_reason" ELSE "")

\* ProductService.evaluate_product_relevance, from the LLM's answer on
evaluate_product_relevance(content) ==
    LET response_json == extract_json_from_text(content)
        data == JsonLoads(response_json.val)
        m == ScoreMember(data.members)
    IN  IF ~response_json.some \/ response_json.val = <<>>
        THEN Returned(0, "cannot_evaluate")
        ELSE IF ~data.ok THEN Returned(0, "error_json")
        ELSE IF ~FloatOk(m) THEN Returned(0, "error_float")
        ELSE Returned(FloatOf(m), IF HasReason(data.members) THEN "llm_reason" ELSE "")

TextIdle ==
    /\ text = <<>>
    /\ text_op = "idle"
    /\ text_result = None

---------------------------------------------------------------------------
(* ProductService.generate_recommendations *)

Rec(product, score, reason) ==
    [product |-> product, relevance_score |-> score, recommendation_reason |-> reason]

Response(recs, questions) ==
    [recommendations |-> recs, additional_questions |-> questions]

\* list.sort(key=lambda x: x[1], reverse=True): stable, highest score first
RECURSIVE InsertDesc(_, _)
InsertDesc(sorted, e) ==
    IF sorted = <<>> THEN <<e>>
    ELSE IF Head(sorted).score >= e.score
         THEN <<Head(sorted)>> \o InsertDesc(Tail(sorted), e)
         ELSE <<e>> \o sorted

RECURSIVE SortDesc(_)
SortDesc(s) ==
    IF s = <<>> THEN <<>>
    ELSE InsertDesc(SortDesc(SubSeq(s, 1, Len(s) - 1)), s[Len(s)])

\* s[:n] of a Python list, n any integer
SlicePrefix(s, n) ==
    IF n >= 0 THEN SubSeq(s, 1, IF n < Len(s) THEN n ELSE Len(s))
    ELSE SubSeq(s, 1, Len(s) + n)

FallbackNoSort(req, evaluated) ==
    LET top_products == SlicePrefix(evaluated, req.max_results)
    IN  [evaluated |-> evaluated,
         response |-> Response(
             [k \in 1..Len(top_products) |->
                 Rec(top_products[k].product, top_products[k].score,
                     top_products[k].reason)],
             <<>>)]

\* ProductService._fallback_recommendations; the sort is in place, so the caller's
\* list is returned with the response
fallback_recommendations(req, evaluated) ==
    LET sorted == SortDesc(evaluated)
        top_products == SlicePrefix(sorted, req.max_results)
    IN  [evaluated |-> sorted,
         response |-> Response(
             [k \in 1..Len(top_products) |->
                 Rec(top_products[k].product, top_products[k].score,
                     top_products[k].reason)],
             <<>>)]

\* data.get("recommendations", []) and data.get("additional_questions", [])
RecEntries(members) == SelectSeq(members, LAMBDA c : c \in RecMembers)
Questions(members) == SelectSeq(members, LAMBDA c : c = "q")

\* Product(**product_data) raises a ValidationError on a "bad" entry
ProductValid(entry) == entry # "bad"
LlmProduct == [product_url |-> 0, name |-> "llm"]
EntryScore(entry) == CASE entry = "v1" -> 1 [] entry = "v2" -> 2 [] OTHER -> 0

LlmRecs(entries) ==
    [k \in 1..Len(entries) |-> Rec(LlmProduct, EntryScore(entries[k]), "llm_reason")]

GenRecSkipInvalid(req, evaluated, content) ==
    LET response_json == extract_json_from_text(content)
        data == JsonLoads(response_json.val)
        entries == SelectSeq(RecEntries(data.members), ProductValid)
    IN  IF ~response_json.some \/ response_json.val = <<>>
        THEN fallback_recommendations(req, evaluated)
        ELSE IF ~data.ok THEN fallback_recommendations(req, evaluated)
        ELSE [evaluated |-> evaluated,
              response |-> Response(LlmRecs(entries), Questions(data.members))]

\* ProductService.generate_recommendations, from the LLM's answer on
generate_recommendations(req, evaluated, content) ==
    LET response_json == extract_json_from_text(content)
        data == JsonLoads(response_json.val)
        entries == RecEntries(data.members)
    IN  IF ~response_json.some \/ response_json.val = <<>>
        THEN fallback_recommendations(req, evaluated)
        ELSE IF ~data.ok THEN fallback_recommendations(req, evaluated)
        ELSE IF \E k \in 1..Len(entries) : ~ProductValid(entries[k])
        THEN fallback_recommendations(req, evaluated)
        ELSE [evaluated |-> evaluated,
              response |-> Response(LlmRecs(entries), Questions(data.members))]

---------------------------------------------------------------------------
(* The hotel booking API: api.py, models.py, sutochno_service.py *)

MaxTasks == 1
MaxDay == 2
MaxHotels == 2

\* dates, counted in days from date.today()
Days == -1..MaxDay
RawRequests == [check_in : Days, check_out : Days]
NoRequest == [check_in |-> 0, check_out |-> 0]

AlwaysValid(req) == TRUE

\* BookingRequest.check_out_after_check_in: the validator lets the request through
check_out_after_check_in(req) == ~(req.check_out <= req.check_in)

CheckInBeforeToday(req) == req.check_in < 0

\* start_search: booking_request.check_in <= date.today()
CheckInNotFuture(req) == req.check_in <= 0

Msg(kind, count) == [text |-> kind, count |-> count]

\* f"Ошибка при поиске: {str(e)}"
SearchErrorMsg(e) == [text |-> "search_error", count |-> 0, error |-> e]

NoResult == [some |-> FALSE, hotels |-> <<>>, total_found |-> 0,
             search_params |-> NoRequest]

\* HotelRecommendations(hotels=hotels, total_found=len(hotels), search_params=...)
HotelRecommendations(hotels, req) ==
    [some |-> TRUE, hotels |-> hotels, total_found |-> Len(hotels),
     search_params |-> req]

\* HotelInfo: its id and total_price
HotelIds == 1..MaxHotels
HotelInfo(k) == [id |-> k, total_price |-> 1000 * k]

\* what the browser agent may have found: lists of hotels
AgentHotelLists == {<<>>} \cup {[k \in 1..n |-> HotelInfo(k)] : n \in HotelIds}

ParseAgentHotels(agent_result, req) == agent_result

\* SutochnoService._parse_search_results: the parsing is a TODO
parse_search_results(agent_result, req) == <<>>

\* SutochnoService.search_hotels, once agent.run() has returned agent_result
search_hotels(agent_result, req) ==
    HotelRecommendations(parse_search_results(agent_result, req), req)

NoBody == [kind |-> "none"]
Http(op, code, body) == [op |-> op, code |-> code, body |-> body]

\* BookingRequest objects: the bodies the validator lets through
BookingRequests == {req \in RawRequests : check_out_after_check_in(req)}

\* what happens to the agent inside book_hotel: self.agent is None, agent.run()
\* raises, or agent.run() returns a report of the booking
AgentBookingOutcomes == {"no_agent", "raised", "confirmed", "declined", "garbage"}

BookingResult(success, total_amount, message) ==
    [raised |-> FALSE, success |-> success, total_amount |-> total_amount,
     message |-> message]
BookingRaised == [raised |-> TRUE, success |-> FALSE, total_amount |-> 0, message |-> ""]

ParseBookingFromAgent(agent_result, hotel, req) ==
    BookingResult(agent_result = "confirmed", hotel.total_price, "parsed")

\* SutochnoService._parse_booking_result: the parsing is a TODO
parse_booking_result(agent_result, hotel, req) ==
    BookingResult(FALSE, hotel.total_price, "parsing_not_implemented")

\* SutochnoService.book_hotel
book_hotel(hotel, req, agent) ==
    IF agent \in {"no_agent", "raised"}
    THEN BookingResult(FALSE, hotel.total_price, "booking_error")
    ELSE parse_booking_result(agent, hotel, req)

NoCall == [state |-> "idle"]

HotelIdle ==
    /\ search_tasks = <<>>
    /\ booking_confirmations = <<>>
    /\ background = <<>>
    /\ http = Http("idle", 0, NoBody)
    /\ book_call = NoCall

---------------------------------------------------------------------------
(* BrowserService.extract_multiple_products *)

NoProduct == [some |-> FALSE, product_url |-> 0, name |-> ""]
Product(url, name) == [some |-> TRUE, product_url |-> url, name |-> name]

\* what agent.run() did: it raised, or it returned extracted_content
AgentRaised == [raises |-> TRUE, content |-> <<>>]
AgentSaid(content) == [raises |-> FALSE, content |-> content]

\* BrowserService.extract_product_info: raises, or returns Optional[Product]
extract_product_info(url, agent) ==
    LET json_str == browser_json_str(agent.content)
        product_data == JsonLoads(json_str.val)
    IN  IF agent.raises THEN [raised |-> TRUE, product |-> NoProduct]
        ELSE IF ~json_str.some THEN [raised |-> FALSE, product |-> NoProduct]
        ELSE IF ~product_data.ok THEN [raised |-> TRUE, product |-> NoProduct]
        ELSE [raised |-> FALSE,
              product |-> Product(url,
                  IF \E k \in 1..Len(product_data.members) : product_data.members[k] = "n"
                  THEN "name" ELSE "")]

ExtractSingleNoCatch(url, agent) == extract_product_info(url, agent)

\* extract_single_product: try / except Exception -> None
extract_single_product(url, agent) ==
    LET r == extract_product_info(url, agent)
    IN  IF r.raised THEN [raised |-> FALSE, product |-> NoProduct] ELSE r

PendingTask == [state |-> "pending", agent |-> AgentRaised, raised |-> FALSE,
                product |-> NoProduct]

\* [product for product in results if product is not None]
RECURSIVE NotNone(_)
NotNone(results) ==
    IF results = <<>> THEN <<>>
    ELSE IF Head(results).some THEN <<Head(results)>> \o NotNone(Tail(results))
    ELSE NotNone(Tail(results))

\* the list extract_multiple_products returns once gather has every result
GatheredProducts(ts) == NotNone([k \in 1..Len(ts) |-> ts[k].product])

---------------------------------------------------------------------------
(* ProductService.get_product_recommendations *)

MaxSearchLen == 4
MaxResults == 3
MaxProducts == 3
MaxRecs == 2
MAX_SEARCH_RESULTS == 3

Scores == 0..2
MaxResultsValues == -1..MaxResults

Min(a, b) == IF a < b THEN a ELSE b

PageAnswers ==
    {AgentRaised, AgentSaid(<<"x", "{", "n", "}">>), AgentSaid(<<"x">>),
     AgentSaid(<<"{", "x", "}">>)}
EvalAnswers == {<<"{", "s1", "r", "}">>, <<"F", "{", "s2", "}", "E">>, <<"x">>}
PipelineRecoAnswers ==
    {<<"{", "v1", "v2", "}">>, <<"x">>, <<"{", "v2", "bad", "}">>}

PipeIdle ==
    /\ pc = "idle"
    /\ request = [max_results |-> 0]
    /\ search_results = <<>>
    /\ product_urls = <<>>
    /\ tasks = <<>>
    /\ products = <<>>
    /\ evaluated_products = <<>>
    /\ llm_answer = <<>>
    /\ response = Response(<<>>, <<>>)
    /\ trace = <<>>

InitPipeline ==
    /\ TextIdle
    /\ HotelIdle
    /\ llm_calls = 0
    /\ pc = "start"
    /\ request \in [max_results : MaxResultsValues]
    /\ search_results = <<>>
    /\ product_urls = <<>>
    /\ tasks = <<>>
    /\ products = <<>>
    /\ evaluated_products = <<>>
    /\ llm_answer = <<>>
    /\ response = Response(<<>>, <<>>)
    /\ trace = <<>>

\* generate_search_query: one LLM call, which answers or raises
GenerateSearchQuery ==
    /\ pc = "start"
    /\ \E ok \in BOOLEAN : pc' = IF ok THEN "query_done" ELSE "failed"
    /\ llm_calls' = llm_calls + 1
    /\ trace' = Append(trace, "query")
    /\ UNCHANGED <<hotelVars, textVars, request, search_results, product_urls, tasks, products,
                   evaluated_products, llm_answer, response>>

ProductUrlsAll(results) == results

\* the first max_pages_to_process links of the search results
ProductUrls(results) == SubSeq(results, 1, Min(Len(results), MAX_SEARCH_RESULTS))

\* search_service.search returns or raises; then the empty-result exit, or the
\* urls are cut and extract_multiple_products creates its tasks
SearchProducts ==
    /\ pc = "query_done"
    /\ trace' = Append(trace, "search")
    /\ \E n \in -1..MaxSearchLen :
          IF n = -1
          THEN /\ pc' = "failed"
               /\ UNCHANGED <<search_results, product_urls, tasks, response>>
          ELSE /\ search_results' = [k \in 1..n |-> k]
               /\ IF n = 0
                  THEN /\ pc' = "done"
                       /\ response' = Response(<<>>, <<"change_query">>)
                       /\ UNCHANGED <<product_urls, tasks>>
                  ELSE /\ pc' = "extracting"
                       /\ product_urls' = ProductUrls(search_results')
                       /\ tasks' = [k \in 1..Len(product_urls') |-> PendingTask]
                       /\ UNCHANGED response
    /\ UNCHANGED <<hotelVars, textVars, llm_calls, request, products, evaluated_products, llm_answer>>

\* a task of gather starts: it runs to its await of agent.run(); tasks start in order
StartExtraction ==
    /\ pc = "extracting"
    /\ \E i \in 1..Len(tasks) :
          /\ tasks[i].state = "pending"
          /\ \A j \in 1..(i - 1) : tasks[j].state # "pending"
          /\ tasks' = [tasks EXCEPT ![i].state = "running"]
    /\ trace' = Append(trace, "start")
    /\ UNCHANGED <<hotelVars, textVars, llm_calls, pc, request, search_results, product_urls,
                   products, evaluated_products, llm_answer, response>>

\* a task's agent.run() ends and extract_single_product returns; any order
FinishExtraction ==
    /\ pc = "extracting"
    /\ \E i \in 1..Len(tasks), agent \in PageAnswers :
          /\ tasks[i].state = "running"
          /\ LET r == extract_single_product(product_urls[i], agent)
             IN  tasks' = [tasks EXCEPT ![i] = [state |-> "done", agent |-> agent,
                                                raised |-> r.raised,
                                                product |-> r.product]]
    /\ trace' = Append(trace, "finish")
    /\ UNCHANGED <<hotelVars, textVars, llm_calls, pc, request, search_results, product_urls,
                   products, evaluated_products, llm_answer, response>>

GatherFirstDone ==
    /\ pc = "extracting"
    /\ \E i \in 1..Len(tasks) : tasks[i].state = "done"
    /\ products' = GatheredProducts(tasks)
    /\ IF products' = <<>>
       THEN /\ pc' = "done"
            /\ response' = Response(<<>>, <<"no_products">>)
       ELSE /\ pc' = "scoring"
            /\ UNCHANGED response
    /\ UNCHANGED <<hotelVars, textVars, llm_calls, request, search_results, product_urls, tasks,
                   evaluated_products, llm_answer, trace>>

GatherNoEmptyExit ==
    /\ pc = "extracting"
    /\ IF \E i \in 1..Len(tasks) : tasks[i].state = "done" /\ tasks[i].raised
       THEN /\ pc' = "failed"
            /\ UNCHANGED products
       ELSE /\ \A i \in 1..Len(tasks) : tasks[i].state = "done"
            /\ products' = GatheredProducts(tasks)
            /\ pc' = "scoring"
    /\ UNCHANGED <<hotelVars, textVars, llm_calls, request, search_results, product_urls, tasks,
                   evaluated_products, llm_answer, response, trace>>

\* asyncio.gather(*tasks, return_exceptions=False) resumes the caller: with the
\* first exception of a task, or with every result; then the no-product exit
GatherDone ==
    /\ pc = "extracting"
    /\ IF \E i \in 1..Len(tasks) : tasks[i].state = "done" /\ tasks[i].raised
       THEN /\ pc' = "failed"
            /\ UNCHANGED <<products, response>>
       ELSE /\ \A i \in 1..Len(tasks) : tasks[i].state = "done"
            /\ products' = GatheredProducts(tasks)
            /\ IF products' = <<>>
               THEN /\ pc' = "done"
                    /\ response' = Response(<<>>, <<"no_products">>)
               ELSE /\ pc' = "scoring"
                    /\ UNCHANGED response
    /\ UNCHANGED <<hotelVars, textVars, llm_calls, request, search_results, product_urls, tasks,
                   evaluated_products, llm_answer, trace>>

\* one pass of the scoring loop: evaluate_product_relevance on the next product
ScoreNext ==
    /\ pc = "scoring"
    /\ Len(evaluated_products) < Len(products)
    /\ llm_calls' = llm_calls + 1
    /\ trace' = Append(trace, "score")
    /\ \E llm_ok \in BOOLEAN, answer \in EvalAnswers :
          LET r == evaluate_product_relevance(answer)
              product == products[Len(evaluated_products) + 1]
          IN  IF ~llm_ok \/ r.raised
              THEN pc' = "failed" /\ UNCHANGED evaluated_products
              ELSE /\ pc' = "scoring"
                   /\ evaluated_products' =
                         Append(evaluated_products,
                                [product |-> product, score |-> r.score,
                                 reason |-> r.reason])
    /\ UNCHANGED <<hotelVars, textVars, request, search_results, product_urls, tasks, products,
                   llm_answer, response>>

\* the loop is over: generate_recommendations with the LLM's answer
Recommend(answers) ==
    /\ pc = "scoring"
    /\ Len(evaluated_products) = Len(products)
    /\ llm_calls' = llm_calls + 1
    /\ trace' = Append(trace, "recommend")
    /\ \E llm_ok \in BOOLEAN, answer \in answers :
          LET r == generate_recommendations(request, evaluated_products, answer)
          IN  IF ~llm_ok
              THEN pc' = "failed" /\ UNCHANGED <<evaluated_products, llm_answer, response>>
              ELSE /\ pc' = "done"
                   /\ llm_answer' = answer
                   /\ evaluated_products' = r.evaluated
                   /\ response' = r.response
    /\ UNCHANGED <<hotelVars, textVars, request, search_results, product_urls, tasks, products>>

GenerateRecommendations == Recommend(PipelineRecoAnswers)

NextPipeline ==
    \/ GenerateSearchQuery
    \/ SearchProducts
    \/ StartExtraction
    \/ FinishExtraction
    \/ GatherDone
    \/ ScoreNext
    \/ GenerateRecommendations

SpecPipeline == InitPipeline /\ [][NextPipeline]_vars

---------------------------------------------------------------------------
(* SpecReco: generate_recommendations on every list of evaluated products up *)
(* to MaxProducts and every answer of the family RecoAnswers                 *)

\* each product comes with a reason of its own
ReasonNames == <<"reason1", "reason2", "reason3", "reason4", "reason5">>

EvaluatedInputs ==
    UNION {{[k \in 1..n |-> [product |-> Product(k, "name"), score |-> f[k],
                            reason |-> ReasonNames[k]]] : f \in [1..n -> Scores]}
           : n \in 1..MaxProducts}

RecoBodies == SeqsUpTo({"v1", "v2", "bad", "q"}, MaxRecs)

RecoAnswers ==
    UNION {{<<"F", "_", "{">> \o b \o <<"}", "E">>,
            <<"x", "{">> \o b \o <<"}">>,
            <<"{", "x">> \o b \o <<"}">>,
            <<"x">> \o b}
           : b \in RecoBodies}

InitReco ==
    /\ TextIdle
    /\ HotelIdle
    /\ llm_calls = 0
    /\ pc = "scoring"
    /\ request \in [max_results : MaxResultsValues]
    /\ search_results = <<>>
    /\ product_urls = <<>>
    /\ tasks = <<>>
    /\ evaluated_products \in EvaluatedInputs
    /\ products = [k \in 1..Len(evaluated_products) |-> evaluated_products[k].product]
    /\ llm_answer = <<>>
    /\ response = Response(<<>>, <<>>)
    /\ trace = <<>>

GenerateRecommendationsAny == Recommend(RecoAnswers)

SpecReco == InitReco /\ [][GenerateRecommendationsAny]_vars

---------------------------------------------------------------------------
(* SpecText: the text functions applied to every answer up to MaxTextLen *)

InitText ==
    /\ text \in SeqsUpTo(TextAlphabet, MaxTextLen)
    /\ text_op = "none"
    /\ text_result = None
    /\ llm_calls = 0
    /\ PipeIdle
    /\ HotelIdle

ExtractJson ==
    /\ text_op = "none"
    /\ text_op' = "extract"
    /\ text_result' = extract_json_from_text(text)
    /\ UNCHANGED <<text, llm_calls, pipeVars, hotelVars>>

BrowserScan ==
    /\ text_op = "none"
    /\ text_op' = "scan"
    /\ text_result' = browser_json_str(text)
    /\ UNCHANGED <<text, llm_calls, pipeVars, hotelVars>>

EvaluateRelevance ==
    /\ text_op = "none"
    /\ text_op' = "evaluate"
    /\ llm_calls' = llm_calls + 1
    /\ text_result' = evaluate_product_relevance(text)
    /\ UNCHANGED <<text, pipeVars, hotelVars>>

NextText == ExtractJson \/ BrowserScan \/ EvaluateRelevance

SpecText == InitText /\ [][NextText]_vars

---------------------------------------------------------------------------
(* ProductService.generate_search_query on its own (SpecQuery).  The answer of
   the LLM is a sequence of characters: "_" whitespace, "dq" a double quote,
   "sq" a single quote, "x" any other character *)

MaxQueryLen == 5

QueryAlphabet == {"_", "dq", "sq", "x"}

\* str.strip(chars): drops the leading and the trailing characters that are in chars
RECURSIVE LStripChars(_, _)
LStripChars(s, chars) ==
    IF s # <<>> /\ Head(s) \in chars THEN LStripChars(Tail(s), chars) ELSE s

RECURSIVE RStripChars(_, _)
RStripChars(s, chars) ==
    IF s # <<>> /\ s[Len(s)] \in chars
    THEN RStripChars(SubSeq(s, 1, Len(s) - 1), chars)
    ELSE s

StripChars(s, chars) == RStripChars(LStripChars(s, chars), chars)

\* response.content.strip().strip('"').strip("'").strip()
generate_search_query(content) ==
    Strip(StripChars(StripChars(Strip(content), {"dq"}), {"sq"}))

InitQuery ==
    /\ text \in SeqsUpTo(QueryAlphabet, MaxQueryLen)
    /\ text_op = "none"
    /\ text_result = None
    /\ llm_calls = 0
    /\ PipeIdle
    /\ HotelIdle

\* one ainvoke, then the trimming of its answer
GenerateQuery ==
    /\ text_op = "none"
    /\ text_op' = "query"
    /\ llm_calls' = llm_calls + 1
    /\ text_result' = Some(generate_search_query(text))
    /\ UNCHANGED <<text, pipeVars, hotelVars>>

SpecQuery == InitQuery /\ [][GenerateQuery]_vars

---------------------------------------------------------------------------
(* The hotel booking API: handlers and the background search *)

InitHotel ==
    /\ search_tasks = <<>>
    /\ booking_confirmations = <<>>
    /\ background = <<>>
    /\ http = Http("none", 0, NoBody)
    /\ book_call = NoCall

\* FastAPI answers 422 before the handler runs when the body is no BookingRequest
Rejected(op) ==
    /\ http' = Http(op, 422, NoBody)
    /\ UNCHANGED <<search_tasks, booking_confirmations, background>>

\* an HTTPException raised before the handler changed anything
Refused(op, code, detail) ==
    /\ http' = Http(op, code, [kind |-> detail])
    /\ UNCHANGED <<search_tasks, booking_confirmations, background>>

NewTask(req) ==
    [status |-> "searching", progress |-> 0, message |-> Msg("starting", 0),
     booking_request |-> req, result |-> NoResult, error |-> "None"]

\* POST /search/start
StartSearch(req) ==
    /\ IF ~check_out_after_check_in(req) THEN Rejected("start_search")
       ELSE IF CheckInNotFuture(req)
       THEN Refused("start_search", 400, "check_in_not_future")
       ELSE IF req.check_out <= req.check_in
       THEN Refused("start_search", 400, "check_out_not_after")
       ELSE /\ Len(search_tasks) < MaxTasks
            /\ LET task_id == Len(search_tasks) + 1
               IN  /\ search_tasks' = Append(search_tasks, NewTask(req))
                   /\ background' = Append(background, "scheduled")
                   /\ http' = Http("start_search", 200,
                                   [kind |-> "task_id", task_id |-> task_id])
            /\ UNCHANGED booking_confirmations
    /\ UNCHANGED <<textVars, llm_calls, pipeVars, book_call>>

\* perform_search up to its await of service.search_hotels
PerformSearchBegin(task_id) ==
    /\ task_id \in 1..Len(background)
    /\ background[task_id] = "scheduled"
    /\ background' = [background EXCEPT ![task_id] = "running"]
    /\ search_tasks' = [search_tasks EXCEPT
                           ![task_id].progress = 30,
                           ![task_id].message = Msg("searching_site", 0)]
    /\ UNCHANGED <<booking_confirmations, http>>
    /\ UNCHANGED <<textVars, llm_calls, pipeVars, book_call>>

\* the messages of the exceptions service.search_hotels may raise
SearchErrors == {"agent_error", "browser_closed"}

PerformSearchNoCatch(task_id, agent_ok, agent_result, e) ==
    /\ task_id \in 1..Len(background)
    /\ background[task_id] = "running"
    /\ IF agent_ok
       THEN LET result == search_hotels(agent_result,
                                        search_tasks[task_id].booking_request)
            IN  /\ background' = [background EXCEPT ![task_id] = "finished"]
                /\ search_tasks' = [search_tasks EXCEPT
                       ![task_id].status = "completed",
                       ![task_id].progress = 100,
                       ![task_id].message = Msg("found", Len(result.hotels)),
                       ![task_id].result = result]
       ELSE /\ background' = [background EXCEPT ![task_id] = "raised"]
            /\ UNCHANGED search_tasks
    /\ UNCHANGED <<booking_confirmations, http>>
    /\ UNCHANGED <<textVars, llm_calls, pipeVars, book_call>>

PerformSearchStatusOnly(task_id, agent_ok, agent_result, e) ==
    /\ task_id \in 1..Len(background)
    /\ background[task_id] = "running"
    /\ background' = [background EXCEPT ![task_id] = "finished"]
    /\ IF agent_ok
       THEN search_tasks' = [search_tasks EXCEPT ![task_id].status = "completed"]
       ELSE search_tasks' = [search_tasks EXCEPT ![task_id].status = "error"]
    /\ UNCHANGED <<booking_confirmations, http>>
    /\ UNCHANGED <<textVars, llm_calls, pipeVars, book_call>>

PerformSearchResetsProgress(task_id, agent_ok, agent_result, e) ==
    /\ task_id \in 1..Len(background)
    /\ background[task_id] = "running"
    /\ background' = [background EXCEPT ![task_id] = "finished"]
    /\ IF agent_ok
       THEN LET result == search_hotels(agent_result,
                                        search_tasks[task_id].booking_request)
            IN  search_tasks' = [search_tasks EXCEPT
                    ![task_id].status = "completed",
                    ![task_id].progress = 100,
                    ![task_id].message = Msg("found", Len(result.hotels)),
                    ![task_id].result = result]
       ELSE search_tasks' = [search_tasks EXCEPT
                    ![task_id].status = "error",
                    ![task_id].progress = 0,
                    ![task_id].message = SearchErrorMsg(e),
                    ![task_id].error = e]
    /\ UNCHANGED <<booking_confirmations, http>>
    /\ UNCHANGED <<textVars, llm_calls, pipeVars, book_call>>

\* service.search_hotels returns agent_result's hotels (agent_ok) or raises an
\* exception with message e, and perform_search stores the outcome
PerformSearchOutcome(task_id, agent_ok, agent_result, e) ==
    /\ task_id \in 1..Len(background)
    /\ background[task_id] = "running"
    /\ background' = [background EXCEPT ![task_id] = "finished"]
    /\ IF agent_ok
       THEN LET result == search_hotels(agent_result,
                                        search_tasks[task_id].booking_request)
            IN  search_tasks' = [search_tasks EXCEPT
                    ![task_id].status = "completed",
                    ![task_id].progress = 100,
                    ![task_id].message = Msg("found", Len(result.hotels)),
                    ![task_id].result = result]
       ELSE search_tasks' = [search_tasks EXCEPT
                    ![task_id].status = "error",
                    ![task_id].message = SearchErrorMsg(e),
                    ![task_id].error = e]
    /\ UNCHANGED <<booking_confirmations, http>>
    /\ UNCHANGED <<textVars, llm_calls, pipeVars, book_call>>

\* perform_search from the return of its await to its end
PerformSearchEnd(task_id) ==
    \E agent_ok \in BOOLEAN, agent_result \in AgentHotelLists, e \in SearchErrors :
        PerformSearchOutcome(task_id, agent_ok, agent_result, e)

\* SearchStatus: status is Literal["searching", "completed", "error"]
SearchStatusValid(task_data) == task_data.status \in {"searching", "completed", "error"}

\* GET /search/{task_id}/status
GetSearchStatus(task_id) ==
    /\ IF task_id \notin 1..Len(search_tasks)
       THEN http' = Http("get_search_status", 404, [kind |-> "task_not_found"])
       ELSE LET task_data == search_tasks[task_id]
            IN  IF SearchStatusValid(task_data)
                THEN http' = Http("get_search_status", 200,
                                  [kind |-> "status", status |-> task_data.status,
                                   message |-> task_data.message,
                                   progress |-> task_data.progress])
                ELSE http' = Http("get_search_status", 500,
                                  [kind |-> "validation_error"])
    /\ UNCHANGED <<search_tasks, booking_confirmations, background>>
    /\ UNCHANGED <<textVars, llm_calls, pipeVars, book_call>>

GetSearchResultsNoStatusCheck(task_id) ==
    /\ IF task_id \notin 1..Len(search_tasks)
       THEN http' = Http("get_search_results", 404, [kind |-> "task_not_found"])
       ELSE LET task_data == search_tasks[task_id]
            IN  IF ~task_data.result.some
                THEN http' = Http("get_search_results", 404,
                                  [kind |-> "results_not_found"])
                ELSE http' = Http("get_search_results", 200,
                                  [kind |-> "results", result |-> task_data.result])
    /\ UNCHANGED <<search_tasks, booking_confirmations, background>>
    /\ UNCHANGED <<textVars, llm_calls, pipeVars, book_call>>

\* GET /search/{task_id}/results
GetSearchResults(task_id) ==
    /\ IF task_id \notin 1..Len(search_tasks)
       THEN http' = Http("get_search_results", 404, [kind |-> "task_not_found"])
       ELSE LET task_data == search_tasks[task_id]
            IN  IF task_data.status = "searching"
                THEN http' = Http("get_search_results", 202, [kind |-> "still_running"])
                ELSE IF task_data.status = "error"
                THEN http' = Http("get_search_results", 500,
                                  [kind |-> "search_error", error |-> task_data.error])
                ELSE IF ~task_data.result.some
                THEN http' = Http("get_search_results", 404,
                                  [kind |-> "results_not_found"])
                ELSE http' = Http("get_search_results", 200,
                                  [kind |-> "results", result |-> task_data.result])
    /\ UNCHANGED <<search_tasks, booking_confirmations, background>>
    /\ UNCHANGED <<textVars, llm_calls, pipeVars, book_call>>

\* POST /search: search_hotels awaited inside the handler
SearchHotelsSync(req) ==
    /\ IF ~check_out_after_check_in(req) THEN Rejected("search_hotels_sync")
       ELSE /\ \E agent_ok \in BOOLEAN, agent_result \in AgentHotelLists,
                  e \in SearchErrors :
                  IF agent_ok
                  THEN http' = Http("search_hotels_sync", 200,
                                    [kind |-> "results",
                                     result |-> search_hotels(agent_result, req)])
                  ELSE http' = Http("search_hotels_sync", 500,
                                    [kind |-> "agent_error", error |-> e])
            /\ UNCHANGED <<search_tasks, booking_confirmations, background>>
    /\ UNCHANGED <<textVars, llm_calls, pipeVars, book_call>>

\* the hotel of result.hotels whose id is hotel_id, 0 when there is none
SelectedHotel(result, hotel_id) ==
    FirstIdx(result.hotels, LAMBDA h : h.id = hotel_id)

ConfirmBookingUnchecked(hotel_id, task_id, req) ==
    /\ IF ~check_out_after_check_in(req) THEN Rejected("confirm_booking")
       ELSE IF task_id \notin 1..Len(search_tasks)
       THEN Refused("confirm_booking", 404, "task_not_found")
       ELSE /\ Len(booking_confirmations) < MaxTasks
            /\ booking_confirmations' =
                   Append(booking_confirmations,
                          [hotel |-> HotelInfo(hotel_id), booking_request |-> req,
                           confirmed |-> FALSE])
            /\ http' = Http("confirm_booking", 200,
                            [kind |-> "confirmation",
                             confirmation_id |-> Len(booking_confirmations) + 1])
            /\ UNCHANGED <<search_tasks, background>>
    /\ UNCHANGED <<textVars, llm_calls, pipeVars, book_call>>

\* POST /booking/confirm
ConfirmBooking(hotel_id, task_id, req) ==
    /\ IF ~check_out_after_check_in(req) THEN Rejected("confirm_booking")
       ELSE IF task_id \notin 1..Len(search_tasks)
       THEN Refused("confirm_booking", 404, "task_not_found")
       ELSE IF search_tasks[task_id].status # "completed"
               \/ ~search_tasks[task_id].result.some
       THEN Refused("confirm_booking", 400, "search_not_completed")
       ELSE IF SelectedHotel(search_tasks[task_id].result, hotel_id) = 0
       THEN Refused("confirm_booking", 404, "hotel_not_found")
       ELSE /\ Len(booking_confirmations) < MaxTasks
            /\ LET result == search_tasks[task_id].result
                   selected_hotel == result.hotels[SelectedHotel(result, hotel_id)]
               IN  booking_confirmations' =
                      Append(booking_confirmations,
                             [hotel |-> selected_hotel, booking_request |-> req,
                              confirmed |-> FALSE])
            /\ http' = Http("confirm_booking", 200,
                            [kind |-> "confirmation",
                             confirmation_id |-> Len(booking_confirmations) + 1])
            /\ UNCHANGED <<search_tasks, background>>
    /\ UNCHANGED <<textVars, llm_calls, pipeVars, book_call>>

\* POST /booking/{confirmation_id}/execute; the service of the request is a new
\* SutochnoService, so its agent is None
ExecuteBooking(confirmation_id) ==
    /\ IF confirmation_id \notin 1..Len(booking_confirmations)
       THEN Refused("execute_booking", 404, "confirmation_not_found")
       ELSE LET confirmation == booking_confirmations[confirmation_id]
                result == book_hotel(confirmation.hotel,
                                     confirmation.booking_request, "no_agent")
            IN  /\ IF result.raised
                   THEN /\ http' = Http("execute_booking", 500,
                                        [kind |-> "booking_exception"])
                        /\ UNCHANGED booking_confirmations
                   ELSE /\ http' = Http("execute_booking", 200,
                                        [kind |-> "booking_result", result |-> result])
                        /\ booking_confirmations' =
                              [booking_confirmations EXCEPT
                                  ![confirmation_id].confirmed = TRUE]
                /\ UNCHANGED <<search_tasks, background>>
    /\ UNCHANGED <<textVars, llm_calls, pipeVars, book_call>>

\* GET /booking/{confirmation_id}
GetBookingConfirmation(confirmation_id) ==
    /\ IF confirmation_id \notin 1..Len(booking_confirmations)
       THEN http' = Http("get_booking_confirmation", 404,
                         [kind |-> "confirmation_not_found"])
       ELSE http' = Http("get_booking_confirmation", 200,
                         [kind |-> "confirmation",
                          confirmation |-> booking_confirmations[confirmation_id]])
    /\ UNCHANGED <<search_tasks, booking_confirmations, background>>
    /\ UNCHANGED <<textVars, llm_calls, pipeVars, book_call>>

CancelSearchEvicts(task_id) ==
    /\ IF task_id \notin 1..Len(search_tasks)
       THEN /\ http' = Http("cancel_search", 404, [kind |-> "task_not_found"])
            /\ UNCHANGED <<search_tasks, background>>
       ELSE /\ search_tasks' = SubSeq(search_tasks, 1, task_id - 1)
            /\ background' = SubSeq(background, 1, task_id - 1)
            /\ http' = Http("cancel_search", 200, [kind |-> "cancelled"])
    /\ UNCHANGED booking_confirmations
    /\ UNCHANGED <<textVars, llm_calls, pipeVars, book_call>>

CancelSearchStopsTask(task_id) ==
    /\ IF task_id \notin 1..Len(search_tasks)
       THEN /\ http' = Http("cancel_search", 404, [kind |-> "task_not_found"])
            /\ UNCHANGED <<search_tasks, background>>
       ELSE /\ search_tasks' = [search_tasks EXCEPT
                                   ![task_id].status = "cancelled",
                                   ![task_id].message = Msg("cancelled_by_user", 0)]
            /\ background' = [background EXCEPT ![task_id] = "finished"]
            /\ http' = Http("cancel_search", 200, [kind |-> "cancelled"])
    /\ UNCHANGED booking_confirmations
    /\ UNCHANGED <<textVars, llm_calls, pipeVars, book_call>>

\* DELETE /search/{task_id}
CancelSearch(task_id) ==
    /\ IF task_id \notin 1..Len(search_tasks)
       THEN /\ http' = Http("cancel_search", 404, [kind |-> "task_not_found"])
            /\ UNCHANGED search_tasks
       ELSE /\ search_tasks' = [search_tasks EXCEPT
                                   ![task_id].status = "cancelled",
                                   ![task_id].message = Msg("cancelled_by_user", 0)]
            /\ http' = Http("cancel_search", 200, [kind |-> "cancelled"])
    /\ UNCHANGED <<booking_confirmations, background>>
    /\ UNCHANGED <<textVars, llm_calls, pipeVars, book_call>>

TaskIds == 1..MaxTasks

Init ==
    /\ TextIdle
    /\ llm_calls = 0
    /\ PipeIdle
    /\ InitHotel

Next ==
    \/ \E req \in RawRequests : StartSearch(req)
    \/ \E task_id \in TaskIds : PerformSearchBegin(task_id)
    \/ \E task_id \in TaskIds : PerformSearchEnd(task_id)
    \/ \E task_id \in TaskIds : GetSearchStatus(task_id)
    \/ \E task_id \in TaskIds : GetSearchResults(task_id)
    \/ \E req \in RawRequests : SearchHotelsSync(req)
    \/ \E hotel_id \in HotelIds, task_id \in TaskIds, req \in RawRequests :
          ConfirmBooking(hotel_id, task_id, req)
    \/ \E confirmation_id \in TaskIds : ExecuteBooking(confirmation_id)
    \/ \E confirmation_id \in TaskIds : GetBookingConfirmation(confirmation_id)
    \/ \E task_id \in TaskIds : CancelSearch(task_id)

Spec == Init /\ [][Next]_vars

\* BackgroundTasks runs every scheduled perform_search, and the search of the
\* agent ends: by returning or by raising
SpecFair ==
    /\ Spec
    /\ \A task_id \in TaskIds :
          /\ WF_vars(PerformSearchBegin(task_id))
          /\ WF_vars(PerformSearchEnd(task_id))

---------------------------------------------------------------------------
(* SutochnoService.book_hotel on its own (SpecBooking): every hotel, every
   BookingRequest and every outcome of the agent *)

InitBooking ==
    /\ TextIdle
    /\ llm_calls = 0
    /\ PipeIdle
    /\ search_tasks = <<>>
    /\ booking_confirmations = <<>>
    /\ background = <<>>
    /\ http = Http("idle", 0, NoBody)
    /\ \E k \in HotelIds, req \in BookingRequests, agent \in AgentBookingOutcomes :
          book_call = [state |-> "called", hotel |-> HotelInfo(k),
                       booking_request |-> req, agent |-> agent,
                       result |-> BookingRaised]

BookHotel ==
    /\ book_call.state = "called"
    /\ book_call' = [book_call EXCEPT
                        !.state = "returned",
                        !.result = book_hotel(book_call.hotel,
                                              book_call.booking_request,
                                              book_call.agent)]
    /\ UNCHANGED <<textVars, llm_calls, pipeVars, search_tasks,
                   booking_confirmations, background, http>>

SpecBooking == InitBooking /\ [][BookHotel]_vars

---------------------------------------------------------------------------
(* Properties of the text functions (SpecText) *)

NoJsonExtracted(t) ==
    LET j == extract_json_from_text(t) IN ~j.some \/ j.val = <<>>

ParseFails(t) ==
    ~NoJsonExtracted(t) /\ ~JsonLoads(extract_json_from_text(t).val).ok

ConvertFails(t) ==
    /\ ~NoJsonExtracted(t)
    /\ JsonLoads(extract_json_from_text(t).val).ok
    /\ ~FloatOk(ScoreMember(JsonLoads(extract_json_from_text(t).val).members))

\* C1: evaluate_product_relevance never raises and calls the LLM exactly once; when
\* no JSON can be extracted from the answer, or the extracted text fails to parse
\* or its score fails to convert, it returns the score 0.0 and a non-empty error
\* string.
C1_EvaluateFailureYieldsZero ==
    text_op = "evaluate" =>
        /\ llm_calls = 1
        /\ ~text_result.raised
        /\ (NoJsonExtracted(text) \/ ParseFails(text) \/ ConvertFails(text)) =>
               (text_result.score = 0 /\ text_result.reason # "")

C1_Witness ==
    /\ text_op = "evaluate"
    /\ ConvertFails(text)
    /\ text_result = Returned(0, "error_float")

HasFencedBlock(t) ==
    \E i, j \in 1..Len(t) : i < j /\ t[i] = "F" /\ HasFence(t[j])

\* v is the text between the first ```json of t and the first ``` after it,
\* without the whitespace around it
IsFirstBlockContent(t, v) ==
    \E i, j \in 1..Len(t) :
        /\ i < j
        /\ t[i] = "F"
        /\ \A k \in 1..(i - 1) : t[k] # "F"
        /\ HasFence(t[j])
        /\ \A k \in (i + 1)..(j - 1) : ~HasFence(t[k])
        /\ \E a \in (i + 1)..j, b \in i..(j - 1) :
              /\ v = SubSeq(t, a, b)
              /\ \A k \in (i + 1)..(a - 1) : IsSpace(t[k])
              /\ \A k \in (b + 1)..(j - 1) : IsSpace(t[k])
              /\ v # <<>> => (~IsSpace(v[1]) /\ ~IsSpace(v[Len(v)]))

HasBraceSpan(t) ==
    \E i, j \in 1..Len(t) : i < j /\ t[i] = "{" /\ t[j] = "}"

\* v is the substring of t from its first { through its last }
IsBraceSpan(t, v) ==
    \E i, j \in 1..Len(t) :
        /\ i < j
        /\ t[i] = "{" /\ \A k \in 1..(i - 1) : t[k] # "{"
        /\ t[j] = "}" /\ \A k \in (j + 1)..Len(t) : t[k] # "}"
        /\ v = SubSeq(t, i, j)

\* the claim's rule: the first ```json block when there is one, otherwise the
\* substring from the first { through the last }, otherwise None
FenceFirstRule(t, result) ==
    IF HasFencedBlock(t)
    THEN result.some /\ IsFirstBlockContent(t, result.val)
    ELSE IF HasBraceSpan(t)
    THEN result.some /\ IsBraceSpan(t, result.val)
    ELSE result = None

\* C5 as stated, of both extraction sites: the content of the first ```json
\* block is the candidate whenever the text has such a block, at
\* _extract_json_from_text and at the scan of extract_product_info alike.
C5_FenceFirstAtBothSites ==
    text_op \in {"extract", "scan"} => FenceFirstRule(text, text_result)

\* C5: _extract_json_from_text returns the content of the first ```json block when
\* the text has one; otherwise the substring from the first { through the last };
\* and None when the text has neither.  The scan of extract_product_info never
\* looks for a fence: it yields the substring from the first { through the last }
\* whether or not the text has a ```json block, None when the text has no { or
\* no }, and the empty string when the last } comes before the first {.
C5_ExtractJson ==
    /\ text_op = "extract" => FenceFirstRule(text, text_result)
    /\ text_op = "scan" =>
          IF HasBraceSpan(text)
          THEN text_result.some /\ IsBraceSpan(text, text_result.val)
          ELSE IF \/ \A k \in 1..Len(text) : text[k] # "{"
                  \/ \A k \in 1..Len(text) : text[k] # "}"
          THEN text_result = None
          ELSE text_result = Some(<<>>)

C5_Witness ==
    /\ text_op = "extract"
    /\ HasFencedBlock(text)
    /\ HasBraceSpan(text)
    /\ text_result.some
    /\ text_result.val # <<>>
    /\ ~IsBraceSpan(text, text_result.val)

---------------------------------------------------------------------------
(* Properties of generate_recommendations (SpecReco) *)

RecommendReturned == pc = "done" /\ trace # <<>> /\ trace[Len(trace)] = "recommend"

\* the LLM's answer has no extractable JSON, or invalid JSON, or a recommendation
\* whose product record fails validation
FallbackCase(answer) ==
    \/ NoJsonExtracted(answer)
    \/ ParseFails(answer)
    \/ \E k \in 1..Len(answer) : answer[k] = "bad"

IsRanked(recs) ==
    \A i, j \in 1..Len(recs) :
        i < j => recs[i].relevance_score >= recs[j].relevance_score

\* the length of lst[:n] for a list of length len
SliceLen(len, n) ==
    IF n >= 0 THEN Min(n, len) ELSE IF len + n > 0 THEN len + n ELSE 0

\* C2: when the LLM's answer has no extractable JSON, invalid JSON or a
\* recommendation whose product fails validation, the response is the fallback: the
\* evaluated products with the highest scores, in descending order of score, cut to
\* evaluated_products[:max_results], each with its own score and reason, and no
\* additional questions.
C2_FallbackResponse ==
    (RecommendReturned /\ FallbackCase(llm_answer)) =>
        LET recs == response.recommendations
            ev == evaluated_products
        IN  /\ response.additional_questions = <<>>
            /\ Len(recs) = SliceLen(Len(ev), request.max_results)
            /\ IsRanked(recs)
            /\ \A i \in 1..Len(recs) : \E k \in 1..Len(ev) :
                  recs[i] = Rec(ev[k].product, ev[k].score, ev[k].reason)
            /\ \A i, j \in 1..Len(recs) : i # j => recs[i].product # recs[j].product
            /\ \A k \in 1..Len(ev) :
                  (\A i \in 1..Len(recs) : recs[i].product # ev[k].product) =>
                      \A i \in 1..Len(recs) : recs[i].relevance_score >= ev[k].score

C2_Witness ==
    /\ RecommendReturned
    /\ ~NoJsonExtracted(llm_answer)
    /\ ~ParseFails(llm_answer)
    /\ \E k \in 1..Len(llm_answer) : llm_answer[k] = "bad"
    /\ \E k \in 1..Len(llm_answer) : llm_answer[k] \in {"v1", "v2"}
    /\ Len(response.recommendations) = 2
    /\ Len(evaluated_products) = 3
    /\ response.recommendations[1].product.product_url
          > response.recommendations[2].product.product_url

\* C3, for the values of max_results that a list can satisfy: the response has at
\* most request.max_results recommendations.
C3_AtMostMaxResults ==
    (RecommendReturned /\ request.max_results >= 0) =>
        Len(response.recommendations) <= request.max_results

\* C4 as claimed: the recommendations of every response are in non-increasing
\* order of relevance_score.
C4_AlwaysRanked == RecommendReturned => IsRanked(response.recommendations)

\* C4 as amended: the recommendations are in non-increasing order of
\* relevance_score on the fallback path; on the LLM path they carry the scores of
\* the LLM's entries in the LLM's order.
C4_RankedOnFallback ==
    RecommendReturned =>
        LET recs == response.recommendations
            entries == SelectSeq(llm_answer, LAMBDA c : c \in {"v1", "v2"})
        IN  IF FallbackCase(llm_answer) THEN IsRanked(recs)
            ELSE /\ Len(recs) = Len(entries)
                 /\ \A k \in 1..Len(recs) :
                       recs[k].relevance_score = (IF entries[k] = "v1" THEN 1 ELSE 2)

C4_Witness ==
    /\ RecommendReturned
    /\ NoJsonExtracted(llm_answer)
    /\ Len(response.recommendations) >= 2
    /\ response.recommendations[1].relevance_score
          > response.recommendations[2].relevance_score
    /\ response.recommendations[1].product.product_url
          > response.recommendations[2].product.product_url

---------------------------------------------------------------------------
(* Properties of the pipeline (SpecPipeline) *)

ExtractionSucceeded(i) ==
    LET r == extract_product_info(product_urls[i], tasks[i].agent)
    IN  ~r.raised /\ r.product.some

\* C6: extract_multiple_products never raises, whichever extractions fail, and
\* returns exactly the products of the extractions that succeeded, in url order.
C6_GatherKeepsSuccesses ==
    /\ pc = "failed" => trace[Len(trace)] \notin {"start", "finish"}
    /\ (pc \in {"scoring", "done"} /\ tasks # <<>>) =>
          /\ \A i \in 1..Len(tasks) : tasks[i].state = "done"
          /\ Len(products) = Cardinality({i \in 1..Len(tasks) : ExtractionSucceeded(i)})
          /\ \A i \in 1..Len(tasks) : ExtractionSucceeded(i) =>
                \E k \in 1..Len(products) :
                    products[k] =
                        extract_product_info(product_urls[i], tasks[i].agent).product
          /\ \A k, l \in 1..Len(products) :
                k < l => products[k].product_url < products[l].product_url

C6_Witness ==
    /\ pc = "scoring"
    /\ Len(tasks) = 3
    /\ tasks[1].agent.raises
    /\ ~tasks[2].agent.raises /\ ~ExtractionSucceeded(2)
    /\ products = <<Product(3, "name")>>

Count(ev, n) == Cardinality({k \in 1..n : trace[k] = ev})

\* C7: the query is generated before the one search call, the search call comes
\* before any extraction starts, every extraction has finished before the first
\* scoring call, and every product has been scored, one call per product and in
\* the products' order, before the recommendation call.
C7_PipelineOrder ==
    /\ \A i \in 1..Len(trace) :
          /\ trace[i] = "search" =>
                (Count("query", i - 1) = 1 /\ Count("search", i - 1) = 0)
          /\ trace[i] = "start" => Count("search", i - 1) = 1
          /\ trace[i] = "score" =>
                /\ Count("start", i - 1) = Len(product_urls)
                /\ Count("finish", i - 1) = Len(product_urls)
                /\ Count("recommend", i - 1) = 0
          /\ trace[i] = "recommend" =>
                (Count("score", i - 1) = Len(products) /\ Len(products) >= 1)
    /\ pc = "scoring" =>
          /\ Len(evaluated_products) <= Len(products)
          /\ \A k \in 1..Len(evaluated_products) :
                evaluated_products[k].product = products[k]

C7_Witness ==
    /\ RecommendReturned
    /\ Len(product_urls) = 3
    /\ Count("score", Len(trace)) = 2

---------------------------------------------------------------------------
(* Properties of the hotel booking API (Spec) *)

ValidDates(req) == req.check_out > req.check_in

NothingStored ==
    UNCHANGED <<search_tasks, booking_confirmations, background>>

StoredRequestsValid ==
    /\ \A t \in 1..Len(search_tasks) :
          /\ ValidDates(search_tasks[t].booking_request)
          /\ search_tasks[t].result.some =>
                ValidDates(search_tasks[t].result.search_params)
    /\ \A c \in 1..Len(booking_confirmations) :
          ValidDates(booking_confirmations[c].booking_request)

\* C8: a request whose check_out is not after its check_in is rejected by every
\* handler that takes a BookingRequest, with nothing stored and SutochnoService
\* not called: a step that is not a 400 or 422 answer leaving the stores alone
\* is no call of such a handler with such a request. Every request held in
\* search_tasks, in a result or in a booking confirmation has check_out after
\* check_in.
C8_InvalidDatesRejected ==
    [][/\ StoredRequestsValid'
       /\ \/ http'.code \in {400, 422} /\ NothingStored
          \/ \A req \in RawRequests : ~ValidDates(req) =>
                /\ ~(http'.op = "start_search" /\ StartSearch(req))
                /\ ~(http'.op = "search_hotels_sync" /\ SearchHotelsSync(req))
                /\ ~(/\ http'.op = "confirm_booking"
                     /\ \E hotel_id \in HotelIds, task_id \in TaskIds :
                           ConfirmBooking(hotel_id, task_id, req))]_vars

C8_Witness ==
    /\ http = Http("search_hotels_sync", 422, NoBody)
    /\ Len(search_tasks) >= 1

C10_SearchResultsEmpty ==
    /\ \A t \in 1..Len(search_tasks) :
          /\ search_tasks[t].result.some =>
                /\ search_tasks[t].result.hotels = <<>>
                /\ search_tasks[t].result.total_found = 0
          /\ search_tasks[t].status = "completed" =>
                /\ search_tasks[t].result.some
                /\ search_tasks[t].message = Msg("found", 0)
    /\ (http.op \in {"search_hotels_sync", "get_search_results"} /\ http.code = 200) =>
          /\ http.body.result.hotels = <<>>
          /\ http.body.result.total_found = 0

C10_Witness ==
    /\ http.op = "get_search_results"
    /\ http.code = 200
    /\ \E t \in 1..Len(search_tasks) : search_tasks[t].status = "completed"

---------------------------------------------------------------------------
(* Properties of the booking flow (Spec) *)

C12_BookHotelFails ==
    book_call.state = "returned" =>
        /\ ~book_call.result.raised
        /\ book_call.result.success = FALSE
        /\ book_call.result.total_amount = book_call.hotel.total_price

\* the agent reported a confirmed booking and book_hotel still reports failure
C12_Witness ==
    /\ book_call.state = "returned"
    /\ book_call.agent = "confirmed"
    /\ book_call.hotel.total_price = 2000
    /\ ~book_call.result.success

---------------------------------------------------------------------------
(* Properties of the task store (Spec) *)

\* C13: no step removes a task: search_tasks never gets shorter and every task
\* keeps its id and its request, whatever handler runs; get_search_status for a
\* task that start_search created never answers 404.
C13_NoEviction ==
    [][/\ Len(search_tasks') >= Len(search_tasks)
       /\ \A t \in 1..Len(search_tasks) :
             search_tasks'[t].booking_request = search_tasks[t].booking_request
       /\ http'.op = "get_search_status" =>
             \A task_id \in 1..Len(search_tasks) :
                 GetSearchStatus(task_id) => http'.code # 404]_vars

\* a task was cancelled after its search had ended, and its status was then asked
C13_Witness ==
    /\ Len(search_tasks) >= 1
    /\ search_tasks[1].status = "cancelled"
    /\ background[1] = "finished"
    /\ http.op = "get_search_status"
    /\ http.code # 404

\* the outcome of the search is in the task: its result, or its error
OutcomeStored(t) ==
    \/ search_tasks[t].result.some
    \/ search_tasks[t].error \in SearchErrors

\* C14: cancel_search does not interrupt the background search: it leaves the
\* position of every perform_search as it was, and every search that was started
\* runs to its end, cancelled or not, with its outcome (the result, or the error)
\* stored in the task.
C14_NoCancellation ==
    /\ [][http'.op = "cancel_search" =>
             \A t \in TaskIds : CancelSearch(t) => background' = background]_vars
    /\ \A t \in TaskIds :
          [](( /\ t <= Len(search_tasks)
               /\ background[t] # "finished" )
             => <>( /\ t <= Len(search_tasks)
                    /\ background[t] = "finished"
                    /\ OutcomeStored(t) ))

\* the last request cancelled the task, and its search completed after that
C14_Witness ==
    /\ http = Http("cancel_search", 200, [kind |-> "cancelled"])
    /\ Len(search_tasks) = 1
    /\ search_tasks[1].status = "completed"
    /\ search_tasks[1].result.some
    /\ background[1] = "finished"

\* C15: once cancel_search has marked a task, its status stays "cancelled" and
\* its message stays the cancelled-by-user message in every later state, however
\* the steps of its background search are interleaved.
C15_CancelledStays ==
    [][\A t \in 1..Len(search_tasks) :
          ( /\ search_tasks[t].status = "cancelled"
            /\ search_tasks[t].message = Msg("cancelled_by_user", 0) )
          => /\ search_tasks'[t].status = "cancelled"
             /\ search_tasks'[t].message = Msg("cancelled_by_user", 0)]_vars

C17_SearchFailureStored ==
    [][background' # background =>
       \A t \in TaskIds, r \in AgentHotelLists, e \in SearchErrors :
          PerformSearchOutcome(t, FALSE, r, e) =>
             /\ background'[t] = "finished"
             /\ search_tasks'[t].status = "error"
             /\ search_tasks'[t].error = e
             /\ search_tasks'[t].message = SearchErrorMsg(e)
             /\ ~search_tasks[t].result.some
             /\ search_tasks'[t].result = search_tasks[t].result]_vars

\* a search failed and its task holds the failure
C17_Witness ==
    /\ Len(search_tasks) >= 1
    /\ background[1] = "finished"
    /\ search_tasks[1].status = "error"
    /\ search_tasks[1].error = "agent_error"
    /\ search_tasks[1].message = SearchErrorMsg("agent_error")
    /\ ~search_tasks[1].result.some

\* C19: every task's status is one of the values SearchStatus admits,
\* "searching", "completed" or "error", and get_search_status answers every
\* existing task with a SearchStatus (an unknown task with 404).
C19_StatusAlwaysValid ==
    /\ \A t \in 1..Len(search_tasks) : SearchStatusValid(search_tasks[t])
    /\ http.op = "get_search_status" => http.code \in {200, 404}

---------------------------------------------------------------------------
(* Properties of generate_search_query (SpecQuery) *)

\* C18: the query generate_search_query returns has no whitespace and no single
\* or double quote at its start or at its end, trimming it again leaves it as it
\* is, and the LLM was called once.
C18_QueryTrimmed ==
    text_op = "query" =>
        LET query == text_result.val
        IN  /\ llm_calls = 1
            /\ query # <<>> =>
                  /\ query[1] \notin {"_", "dq", "sq"}
                  /\ query[Len(query)] \notin {"_", "dq", "sq"}
            /\ generate_search_query(query) = query

---------------------------------------------------------------------------
(* Properties of the early exits of get_product_recommendations (SpecPipeline) *)

\* the calls of these kinds that the pipeline made
Made(kinds) == SelectSeq(trace, LAMBDA ev : ev \in kinds)

\* C20: when the search returns no results the response has no recommendations
\* and one question, and no extraction, scoring or recommendation call was made;
\* when the search returns results and no product is extracted the response has
\* no recommendations, and no scoring or recommendation call was made.
C20_EarlyExits ==
    /\ (pc = "done" /\ search_results = <<>>) =>
          /\ response.recommendations = <<>>
          /\ Len(response.additional_questions) = 1
          /\ Made({"start", "finish", "score", "recommend"}) = <<>>
          /\ llm_calls = 1
    /\ (pc = "done" /\ search_results # <<>> /\ products = <<>>) =>
          /\ response.recommendations = <<>>
          /\ Made({"score", "recommend"}) = <<>>
          /\ llm_calls = 1

\* two pages were visited, neither gave a product, and the pipeline returned
C20_Witness ==
    /\ pc = "done"
    /\ Len(search_results) >= 2
    /\ Len(Made({"finish"})) = 2
    /\ products = <<>>
    /\ response = Response(<<>>, <<"no_products">>)

---------------------------------------------------------------------------
(* Properties of the fan-out of get_product_recommendations (SpecPipeline) *)

\* C21: the urls handed to extract_multiple_products are the first
\* min(len(search_results), MAX_SEARCH_RESULTS) search results, in search order;
\* there is one extraction task per url, and no more than MAX_SEARCH_RESULTS
\* extractions are started.
C21_BoundedFanOut ==
    /\ (pc \in {"extracting", "scoring"} \/ (pc = "done" /\ search_results # <<>>)) =>
          /\ Len(product_urls) = Min(Len(search_results), MAX_SEARCH_RESULTS)
          /\ \A k \in 1..Len(product_urls) : product_urls[k] = search_results[k]
          /\ Len(tasks) = Len(product_urls)
    /\ Len(Made({"start"})) <= Len(tasks)
    /\ Len(Made({"start"})) <= MAX_SEARCH_RESULTS

\* the search gave more results than MAX_SEARCH_RESULTS and every task started
C21_Witness ==
    /\ Len(search_results) > MAX_SEARCH_RESULTS
    /\ Len(product_urls) = MAX_SEARCH_RESULTS
    /\ Len(Made({"start"})) = MAX_SEARCH_RESULTS
    /\ product_urls[MAX_SEARCH_RESULTS] = search_results[MAX_SEARCH_RESULTS]

---------------------------------------------------------------------------
(* Properties of the task records and of confirm_booking (Spec) *)

\* the task exists, is completed, has a result, and hotel_id is in the result
ConfirmAllowed(hotel_id, task_id) ==
    /\ task_id \in 1..Len(search_tasks)
    /\ search_tasks[task_id].status = "completed"
    /\ search_tasks[task_id].result.some
    /\ \E k \in 1..Len(search_tasks[task_id].result.hotels) :
          search_tasks[task_id].result.hotels[k].id = hotel_id

\* the requests whose dates are in order: the bodies that are BookingRequests
ValidRequests == {req \in RawRequests : ValidDates(req)}

C23_TaskConsistent ==
    \A t \in 1..Len(search_tasks) :
        LET task_data == search_tasks[t]
        IN  /\ task_data.status = "completed" =>
                  task_data.progress = 100 /\ task_data.result.some
            /\ task_data.status = "error" =>
                  task_data.error # "None" /\ ~task_data.result.some
            /\ task_data.status = "searching" =>
                  ~task_data.result.some /\ task_data.error = "None"

\* a search that failed: perform_search stored the error and left the result empty
C23_Witness ==
    \E t \in 1..Len(search_tasks) :
        /\ search_tasks[t].status = "error"
        /\ search_tasks[t].error \in SearchErrors
        /\ background[t] = "finished"

\* C24: the progress of a task never decreases and stays within 0..100, no task
\* is ever removed, and get_search_status reports the progress the task has, so
\* that of two successive observations of a task the later is at least the earlier.
C24_ProgressMonotone ==
    /\ [](\A t \in 1..Len(search_tasks) : search_tasks[t].progress \in 0..100)
    /\ [][search_tasks' # search_tasks =>
            /\ Len(search_tasks') >= Len(search_tasks)
            /\ \A t \in 1..Len(search_tasks) :
                  search_tasks'[t].progress >= search_tasks[t].progress]_vars
    /\ [][http'.op = "get_search_status" =>
            \A task_id \in TaskIds :
               (GetSearchStatus(task_id) /\ http'.code = 200) =>
                  http'.body.progress = search_tasks[task_id].progress]_vars

\* get_search_status observed progress 100 on a task that started at 0
C24_Witness ==
    /\ http.op = "get_search_status"
    /\ http.code = 200
    /\ http.body.progress = 100
    /\ \E t \in 1..Len(search_tasks) :
          search_tasks[t].progress = 100 /\ background[t] = "finished"

=============================================================================
